---------------------------- MODULE Spec2Model ----------------------------
(***************************************************************************)
(* Model of the Linux monitoring and alerting tool: monitor.py (one        *)
(* run_once cycle, the scheduler loop of main) and the dashboard in        *)
(* web_ui/app.py that reads the state file and triggers a cycle.           *)
(*                                                                         *)
(* Three specifications:                                                   *)
(*   SpecTail  tail_log as a function of (file, last_pos, max_bytes),      *)
(*             called twice in a row with the file growing in between;     *)
(*   Spec      the scheduler process running run_once cycle after cycle    *)
(*             while the log file is appended to, truncated or removed;    *)
(*   SpecConc  the scheduler process and the dashboard's subprocess        *)
(*             running run_once on the same files, with a dashboard        *)
(*             reader and process kills.                                   *)
(***************************************************************************)
EXTENDS Integers, Sequences, FiniteSets, TLC

\* ------------------------------------------------------------------ bounds
\* Longest log file of SpecTail, in bytes.
MaxTailLen == 2
\* Largest max_bytes argument of SpecTail.
MaxCap == 2
\* Bytes appended between the two calls of SpecTail, at most.
MaxGrow == 2

\* Longest log file of Spec and SpecConc, in bytes.
MaxLogLen == 3
\* The max_bytes of the tail_log call of run_once: stands for the default
\* 200000 of tail_log, scaled to the log files of the model.
MaxBytes == 2

\* Cycles started in SpecConc, at most.
MaxRuns == 3

\* Pure functions: lines per call of scan_for_patterns, characters per
\* line, and the largest offset of a state that is saved and loaded.
MaxScanLines == 2
MaxScanLen == 2
MaxOffset == 2

Min(a, b) == IF a < b THEN a ELSE b

\* ------------------------------------------------------- bytes and text
\* Bytes of a log file.  LF and CR are the line terminators 0x0A and 0x0D,
\* "e" and "E" the two cases of a letter, C3 A9 the two-byte UTF-8 encoding
\* of one character.
LF == "LF"
CR == "CR"
REPL == "U+FFFD"
TailBytes == {"e", LF, CR, "C3", "A9"}
\* Bytes of the log file of Spec and SpecConc.
SysBytes == {"E", LF}

\* bytes.decode(errors="replace") on these bytes: a complete C3 A9 pair is
\* one character, a lead byte without its continuation byte and a
\* continuation byte without its lead byte are each one replacement marker.
RECURSIVE Decode(_)
Decode(b) ==
    IF b = <<>> THEN <<>>
    ELSE IF Head(b) = "C3"
         THEN IF Len(b) >= 2 /\ b[2] = "A9"
              THEN <<"U+00E9">> \o Decode(Tail(Tail(b)))
              ELSE <<REPL>> \o Decode(Tail(b))
    ELSE IF Head(b) = "A9" THEN <<REPL>> \o Decode(Tail(b))
    ELSE <<Head(b)>> \o Decode(Tail(b))

\* str.splitlines(): LF, CR and the pair CR LF end a line; the terminators
\* are dropped; text after the last terminator is a last line; no empty
\* last line is added after a final terminator.
RECURSIVE SplitFrom(_, _)
SplitFrom(t, cur) ==
    IF t = <<>> THEN (IF cur = <<>> THEN <<>> ELSE <<cur>>)
    ELSE IF Head(t) = CR /\ Len(t) >= 2 /\ t[2] = LF
         THEN <<cur>> \o SplitFrom(Tail(Tail(t)), <<>>)
    ELSE IF Head(t) \in {LF, CR}
         THEN <<cur>> \o SplitFrom(Tail(t), <<>>)
    ELSE SplitFrom(Tail(t), Append(cur, Head(t)))

splitlines(t) == SplitFrom(t, <<>>)

\* A file: absent, or a sequence of bytes.
File(ex, d) == [exists |-> ex, data |-> d]
AbsentFile == File(FALSE, <<>>)

RECURSIVE SeqsUpTo(_, _)
SeqsUpTo(S, n) ==
    IF n = 0 THEN {<<>>}
    ELSE LET shorter == SeqsUpTo(S, n - 1)
         IN shorter \cup {Append(s, c) : s \in {q \in shorter : Len(q) = n - 1}, c \in S}

\* ------------------------------------------------------------- tail_log
\* The result of a call: raised (an exception left the function), or the
\* pair (lines, new_pos); data are the bytes read.
TailResult(r, d, l, p) == [raised |-> r, data |-> d, lines |-> l, new_pos |-> p]

\* last_pos as run_once passes it: an integer, or not an integer at all.
Pos(n) == [int |-> TRUE, n |-> n]
NotAnInt == [int |-> FALSE, n |-> 0]

\* Mutant: the offset returned assumes that max_bytes bytes were read.
tail_log_full_cap(file, last_pos, max_bytes) ==
    IF ~file.exists THEN TailResult(FALSE, <<>>, <<>>, 0)
    ELSE IF ~last_pos.int \/ last_pos.n < 0 THEN TailResult(TRUE, <<>>, <<>>, 0)
    ELSE LET from == last_pos.n
             upto == Min(Len(file.data), from + max_bytes)
             data == SubSeq(file.data, from + 1, upto)
         IN TailResult(FALSE, data, splitlines(Decode(data)), from + max_bytes)

\* Mutant: the offset returned is the number of bytes read, not f.tell().
tail_log_count(file, last_pos, max_bytes) ==
    IF ~file.exists THEN TailResult(FALSE, <<>>, <<>>, 0)
    ELSE IF ~last_pos.int \/ last_pos.n < 0 THEN TailResult(TRUE, <<>>, <<>>, 0)
    ELSE LET from == last_pos.n
             upto == Min(Len(file.data), from + max_bytes)
             data == SubSeq(file.data, from + 1, upto)
         IN TailResult(FALSE, data, splitlines(Decode(data)), Len(data))

\* Mutant: an offset past the end of the file is reset to 0 before reading.
tail_log_reset(file, last_pos, max_bytes) ==
    IF ~file.exists THEN TailResult(FALSE, <<>>, <<>>, 0)
    ELSE IF ~last_pos.int \/ last_pos.n < 0 THEN TailResult(TRUE, <<>>, <<>>, 0)
    ELSE LET from == IF last_pos.n > Len(file.data) THEN 0 ELSE last_pos.n
             upto == Min(Len(file.data), from + max_bytes)
             data == SubSeq(file.data, from + 1, upto)
         IN TailResult(FALSE, data, splitlines(Decode(data)), from + Len(data))

\* tail_log(file_path, last_pos, max_bytes).  A missing file gives ([], 0).
\* f.seek raises on a negative or non-integer position; a position past
\* the end is accepted, f.read then returns no bytes and f.tell() is the
\* position sought.
tail_log(file, last_pos, max_bytes) ==
    IF ~file.exists THEN TailResult(FALSE, <<>>, <<>>, 0)
    ELSE IF ~last_pos.int \/ last_pos.n < 0 THEN TailResult(TRUE, <<>>, <<>>, 0)
    ELSE LET from == last_pos.n
             upto == Min(Len(file.data), from + max_bytes)
             data == SubSeq(file.data, from + 1, upto)
             new_pos == from + Len(data)
         IN TailResult(FALSE, data, splitlines(Decode(data)), new_pos)

\* ----------------------------------------------------- metrics, alerts
\* The limit of a metric with no configured threshold.
DefaultLimit == 90

\* What metrics_snapshot can return in the model: a quiet host, and a host
\* whose cpu is exactly at the default limit and whose memory is above it.
\* (The two network counters are carried along by the code and decide
\* nothing; they are left out.)
Samples == <<
    [cpu_percent |-> 10, mem_percent |-> 10, disk_percent |-> 10],
    [cpu_percent |-> 90, mem_percent |-> 95, disk_percent |-> 10] >>

\* thresholds.get(metric, 90)
Limit(thresholds, metric) ==
    IF metric \in DOMAIN thresholds THEN thresholds[metric] ELSE DefaultLimit

Breach(metric, value) == [metric |-> metric, value |-> value]

\* check_thresholds with > in place of >=.
check_thresholds_strict(snapshot, thresholds) ==
    (IF snapshot.cpu_percent > Limit(thresholds, "cpu_percent")
     THEN <<Breach("cpu_percent", snapshot.cpu_percent)>> ELSE <<>>)
    \o (IF snapshot.mem_percent > Limit(thresholds, "mem_percent")
        THEN <<Breach("mem_percent", snapshot.mem_percent)>> ELSE <<>>)
    \o (IF snapshot.disk_percent > Limit(thresholds, "disk_percent")
        THEN <<Breach("disk_percent", snapshot.disk_percent)>> ELSE <<>>)

\* check_thresholds(snapshot, thresholds): one message per metric at or
\* above its limit, in the order cpu, mem, disk.
check_thresholds(snapshot, thresholds) ==
    (IF snapshot.cpu_percent >= Limit(thresholds, "cpu_percent")
     THEN <<Breach("cpu_percent", snapshot.cpu_percent)>> ELSE <<>>)
    \o (IF snapshot.mem_percent >= Limit(thresholds, "mem_percent")
        THEN <<Breach("mem_percent", snapshot.mem_percent)>> ELSE <<>>)
    \o (IF snapshot.disk_percent >= Limit(thresholds, "disk_percent")
        THEN <<Breach("disk_percent", snapshot.disk_percent)>> ELSE <<>>)

\* str.lower() on the characters of the model.
LowerChar(c) == IF c = "E" THEN "e" ELSE c
Lower(str) == [i \in 1 .. Len(str) |-> LowerChar(str[i])]

\* p in ln
Contains(ln, pat) ==
    \E i \in 0 .. Len(ln) - Len(pat) : SubSeq(ln, i + 1, i + Len(pat)) = pat

LineHits(ln, patterns) ==
    \E k \in 1 .. Len(patterns) : Contains(Lower(ln), Lower(patterns[k]))

\* scan_for_patterns comparing the pattern and the line as they are.
scan_for_patterns_exact(lines, patterns) ==
    SelectSeq(lines, LAMBDA ln :
        \E k \in 1 .. Len(patterns) : Contains(ln, patterns[k]))

\* scan_for_patterns(lines, patterns)
scan_for_patterns(lines, patterns) ==
    SelectSeq(lines, LAMBDA ln : LineHits(ln, patterns))

\* ------------------------------------------------------ the state file
\* A JSON value found under a key of the state file: missing (no such key),
\* an integer n, the snapshot Samples[n], null, or anything else (a string,
\* a float, a list).
Val(t, n) == [t |-> t, n |-> n]
Missing == Val("missing", 0)
IntVal(n) == Val("int", n)
SnapVal(n) == Val("snap", n)
NullVal == Val("null", 0)
OtherVal == Val("other", 0)

\* What json.load returns: a dict with (or without) the two keys the
\* monitor uses, or a value that is not a dict.
Dict(lp, ls) == [kind |-> "object", log_pos |-> lp, last_snapshot |-> ls]
EmptyDict == Dict(Missing, Missing)
NonObject == [kind |-> "other", log_pos |-> Missing, last_snapshot |-> Missing]

\* The text of the state file, as the sequence of pieces json.dump writes
\* one after the other: the opening brace, one piece per member, the
\* closing brace (and "[" "]" for a JSON list).  NUL is the filler of a hole
\* left by a write past the end of the file.
Tok(k, v) == [k |-> k, v |-> v]
LBrace == Tok("{", Missing)
RBrace == Tok("}", Missing)
LBracket == Tok("[", Missing)
RBracket == Tok("]", Missing)
NUL == Tok("nul", Missing)

\* json.dump leaving out the members whose value is null.
JsonDump_skip_null(state) ==
    IF state.kind # "object" THEN <<LBracket, RBracket>>
    ELSE <<LBrace>>
         \o (IF state.log_pos \in {Missing, NullVal} THEN <<>>
             ELSE <<Tok("log_pos", state.log_pos)>>)
         \o (IF state.last_snapshot \in {Missing, NullVal} THEN <<>>
             ELSE <<Tok("last_snapshot", state.last_snapshot)>>)
         \o <<RBrace>>

\* json.dump(state, f)
JsonDump(state) ==
    IF state.kind # "object" THEN <<LBracket, RBracket>>
    ELSE <<LBrace>>
         \o (IF state.log_pos = Missing THEN <<>> ELSE <<Tok("log_pos", state.log_pos)>>)
         \o (IF state.last_snapshot = Missing THEN <<>>
             ELSE <<Tok("last_snapshot", state.last_snapshot)>>)
         \o <<RBrace>>

Parsed(ok, val) == [ok |-> ok, val |-> val]
ParseError == Parsed(FALSE, EmptyDict)

\* The members of a JSON object up to its closing brace, which must end
\* the text; a repeated key keeps its last value.
RECURSIVE ParseMembers(_, _)
ParseMembers(toks, d) ==
    IF toks = <<>> THEN ParseError
    ELSE IF Head(toks).k = "}"
         THEN (IF Len(toks) = 1 THEN Parsed(TRUE, d) ELSE ParseError)
    ELSE IF Head(toks).k = "log_pos"
         THEN ParseMembers(Tail(toks), [d EXCEPT !.log_pos = Head(toks).v])
    ELSE IF Head(toks).k = "last_snapshot"
         THEN ParseMembers(Tail(toks), [d EXCEPT !.last_snapshot = Head(toks).v])
    ELSE ParseError

\* json.load(f): raises on an empty, truncated or garbled text.
JsonLoad(toks) ==
    IF toks = <<>> THEN ParseError
    ELSE IF Head(toks).k = "{" THEN ParseMembers(Tail(toks), EmptyDict)
    ELSE IF toks = <<LBracket, RBracket>> THEN Parsed(TRUE, NonObject)
    ELSE ParseError

\* load_last_state(state_file): {} when the file is missing or json.load
\* raises, else whatever json.load returns.
load_last_state(file) ==
    IF file.exists
    THEN (IF JsonLoad(file.data).ok THEN JsonLoad(file.data).val ELSE EmptyDict)
    ELSE EmptyDict

\* save_last_state(state_file, state): the file as the call leaves it when
\* nothing else writes to it.
save_last_state(state) == File(TRUE, JsonDump(state))

\* read_state() of the dashboard: the same, on the same file.
read_state(file) ==
    IF ~file.exists THEN EmptyDict
    ELSE IF JsonLoad(file.data).ok THEN JsonLoad(file.data).val
    ELSE EmptyDict

\* last_state.get("log_pos", 0), for a dict
get_log_pos(last_state) ==
    IF last_state.log_pos = Missing THEN Pos(0)
    ELSE IF last_state.log_pos.t = "int" THEN Pos(last_state.log_pos.n)
    ELSE NotAnInt

\* ---------------------------------------------------------------- state
VARIABLES
    tFile,      \* SpecTail: the log file
    tPos,       \* SpecTail: last_pos of the first call
    tCap,       \* SpecTail: max_bytes of both calls
    tStep,      \* SpecTail: "start", "first" (one call made), "second"
    tGrown,     \* SpecTail: bytes appended since the first call
    r1,         \* SpecTail: result of the first call
    r2,         \* SpecTail: result of the second call
    logFile,    \* the log file cfg["log_file"]
    stateFile,  \* the state file cfg["state_file"], as a sequence of pieces
    cfg,        \* the configuration read_config returned
    logReadable, \* the monitor's user may open the log file for reading
    pc,         \* per process: where it is in run_once
    loc,        \* per process: the local variables of run_once
    scanCount,  \* per byte of the current log file: times passed to the scanner
    seen,       \* what the dashboard's read_state returned last
    runs,       \* SpecConc: cycles started so far
    fnCall,     \* SpecFn: the function called and its arguments
    fnOut,      \* SpecFn: what the call returned or wrote
    fnStep      \* SpecFn: "call", "saved" (save_last_state done), "done"

tailVars == <<tFile, tPos, tCap, tStep, tGrown, r1, r2>>
sysVars == <<logFile, stateFile, cfg, logReadable, pc, loc, scanCount, seen, runs>>
fnVars == <<fnCall, fnOut, fnStep>>
vars == <<tailVars, sysVars, fnVars>>

NoResult == TailResult(FALSE, <<>>, <<>>, 0)

\* The two processes that run run_once: the scheduler started by main, and
\* the subprocess the dashboard's run_check starts.
Procs == {"sched", "dash"}

\* The locals of run_once before its first statement.  tailed: the cycle is
\* past metrics collection and log tailing; sent: calls of send_email in
\* this cycle; dispatch: "none", "skipped", "delivered" or "failed"; err:
\* the exception that left run_once; wr: pieces of the state file written.
InitLoc == [
    last_state |-> EmptyDict, snapshot |-> 0, last_pos |-> Pos(0),
    present |-> FALSE, hits |-> <<>>, new_pos |-> 0, alerts |-> <<>>,
    tailed |-> FALSE, sent |-> 0, dispatch |-> "none", err |-> "none",
    saved |-> FALSE, wr |-> 0 ]

\* cfg: "smtp" is a complete mapping ("ok"), has no "from" key ("nofrom"),
\* or is no key of the configuration ("missing").
Config(smtp) == [
    smtp |-> smtp,
    thresholds |-> [mem_percent |-> 95],
    log_patterns |-> << <<"e">> >> ]

\* A complete state file, as a cycle leaves it.
SavedState(pos, snap) == JsonDump(Dict(IntVal(pos), SnapVal(snap)))

\* The state file found at the first start: none, one a cycle left, or one
\* damaged since: empty, cut short, a JSON list, an object with no log_pos,
\* with a log_pos that is no integer, with a negative log_pos.
StateFileShapes ==
    { AbsentFile,
      File(TRUE, SavedState(0, 1)),
      File(TRUE, SavedState(2, 2)),
      File(TRUE, <<>>),
      File(TRUE, <<LBrace, Tok("log_pos", IntVal(1))>>),
      File(TRUE, <<LBracket, RBracket>>),
      File(TRUE, <<LBrace, Tok("last_snapshot", SnapVal(1)), RBrace>>),
      File(TRUE, <<LBrace, Tok("log_pos", OtherVal), RBrace>>),
      File(TRUE, <<LBrace, Tok("log_pos", IntVal(-1)), RBrace>>) }

\* The arguments of one call of a pure function, and its results.
Call(fn, snapshot, thresholds, lines, patterns, state) ==
    [fn |-> fn, snapshot |-> snapshot, thresholds |-> thresholds,
     lines |-> lines, patterns |-> patterns, state |-> state]
NoCall == Call("none", Samples[1], <<>>, <<>>, <<>>, EmptyDict)
Out(alerts, hits, file, loaded) ==
    [alerts |-> alerts, hits |-> hits, file |-> file, loaded |-> loaded]
NoOut == Out(<<>>, <<>>, AbsentFile, EmptyDict)

FnIdle == fnCall = NoCall /\ fnOut = NoOut /\ fnStep = "off"

TailIdle ==
    /\ tFile = AbsentFile /\ tPos = 0 /\ tCap = 0 /\ tStep = "off"
    /\ tGrown = 0 /\ r1 = NoResult /\ r2 = NoResult

SysIdle ==
    /\ logFile = AbsentFile /\ stateFile = AbsentFile /\ cfg = Config("ok")
    /\ logReadable = TRUE
    /\ pc = [p \in Procs |-> "off"] /\ loc = [p \in Procs |-> InitLoc]
    /\ scanCount = [i \in 1 .. MaxLogLen |-> 0] /\ seen = EmptyDict /\ runs = 0

TailInit ==
    /\ tFile \in {AbsentFile} \cup {File(TRUE, d) : d \in SeqsUpTo(TailBytes, MaxTailLen)}
    /\ tPos \in 0 .. MaxTailLen + 1
    /\ tCap \in 0 .. MaxCap
    /\ tStep = "start"
    /\ tGrown = 0
    /\ r1 = NoResult
    /\ r2 = NoResult
    /\ SysIdle
    /\ FnIdle

\* The first call, from tPos.
TailFirst ==
    /\ tStep = "start"
    /\ r1' = tail_log(tFile, Pos(tPos), tCap)
    /\ tStep' = "first"
    /\ UNCHANGED <<tFile, tPos, tCap, tGrown, r2, sysVars, fnVars>>

\* A writer appends one byte to the file between the two calls.
TailGrow ==
    /\ tStep = "first"
    /\ tFile.exists
    /\ tGrown < MaxGrow
    /\ \E c \in TailBytes : tFile' = File(TRUE, Append(tFile.data, c))
    /\ tGrown' = tGrown + 1
    /\ UNCHANGED <<tPos, tCap, tStep, r1, r2, sysVars, fnVars>>

\* The second call, from the offset the first one returned.
TailSecond ==
    /\ tStep = "first"
    /\ r2' = tail_log(tFile, Pos(r1.new_pos), tCap)
    /\ tStep' = "second"
    /\ UNCHANGED <<tFile, tPos, tCap, tGrown, r1, sysVars, fnVars>>

TailNext == TailFirst \/ TailGrow \/ TailSecond

SpecTail == TailInit /\ [][TailNext]_vars

\* ------------------------------------------------- the pure functions
\* Metric values and configured limits around the default limit.
Percents == {DefaultLimit - 1, DefaultLimit, DefaultLimit + 1}
Limits == {DefaultLimit - 1, DefaultLimit + 1}
Metrics == <<"cpu_percent", "mem_percent", "disk_percent">>
MetricNames == {Metrics[i] : i \in 1 .. Len(Metrics)}

\* A snapshot, and cfg["thresholds"] with any of the three keys missing.
Snapshots == [cpu_percent : Percents, mem_percent : Percents, disk_percent : Percents]
Thresholds == UNION {[D -> Limits] : D \in SUBSET MetricNames}

\* Lines as tail_log returns them, and lists of patterns: none, one, one
\* in upper case, two that can match the same line, the empty pattern.
LineChars == {"e", "E", "x"}
ScanLines == SeqsUpTo(SeqsUpTo(LineChars, MaxScanLen), MaxScanLines)
PatternLists ==
    { <<>>,
      << <<"e">> >>,
      << <<"E", "x">> >>,
      << <<"x">>, <<"e">> >>,
      << <<"x", "e">>, <<"e", "e">> >>,
      << <<>> >> }

\* The states run_once saves: an offset, and a last sample that is missing,
\* null or a snapshot.
ValidStates ==
    { Dict(IntVal(n), ls) :
        n \in 0 .. MaxOffset,
        ls \in {Missing, NullVal} \cup {SnapVal(k) : k \in 1 .. Len(Samples)} }

FnInit ==
    /\ fnCall \in
          {Call("check_thresholds", sn, th, <<>>, <<>>, EmptyDict) :
              sn \in Snapshots, th \in Thresholds}
          \cup {Call("scan_for_patterns", Samples[1], <<>>, ls, ps, EmptyDict) :
                  ls \in ScanLines, ps \in PatternLists}
          \cup {Call("save_load", Samples[1], <<>>, <<>>, <<>>, st) : st \in ValidStates}
    /\ fnOut = NoOut
    /\ fnStep = "call"
    /\ TailIdle
    /\ SysIdle

CallCheckThresholds ==
    /\ fnStep = "call"
    /\ fnCall.fn = "check_thresholds"
    /\ fnOut' = [fnOut EXCEPT !.alerts = check_thresholds(fnCall.snapshot, fnCall.thresholds)]
    /\ fnStep' = "done"
    /\ UNCHANGED <<fnCall, tailVars, sysVars>>

CallScanForPatterns ==
    /\ fnStep = "call"
    /\ fnCall.fn = "scan_for_patterns"
    /\ fnOut' = [fnOut EXCEPT !.hits = scan_for_patterns(fnCall.lines, fnCall.patterns)]
    /\ fnStep' = "done"
    /\ UNCHANGED <<fnCall, tailVars, sysVars>>

CallSave ==
    /\ fnStep = "call"
    /\ fnCall.fn = "save_load"
    /\ fnOut' = [fnOut EXCEPT !.file = save_last_state(fnCall.state)]
    /\ fnStep' = "saved"
    /\ UNCHANGED <<fnCall, tailVars, sysVars>>

CallLoad ==
    /\ fnStep = "saved"
    /\ fnOut' = [fnOut EXCEPT !.loaded = load_last_state(fnOut.file)]
    /\ fnStep' = "done"
    /\ UNCHANGED <<fnCall, tailVars, sysVars>>

FnNext == CallCheckThresholds \/ CallScanForPatterns \/ CallSave \/ CallLoad

SpecFn == FnInit /\ [][FnNext]_vars

\* -------------------------------------------------------------- run_once
Goto(p, label, l) ==
    /\ pc' = [pc EXCEPT ![p] = label]
    /\ loc' = [loc EXCEPT ![p] = l]

Raise(p, exc) == Goto(p, "raised", [loc[p] EXCEPT !.err = exc])

\* Mutant: the state file is opened for writing before the metrics are
\* collected.
StartCycle_open_first(p) ==
    /\ pc[p] = "idle"
    /\ \/ /\ \E k \in 1 .. Len(Samples) :
                Goto(p, "tail", [loc[p] EXCEPT
                    !.last_state = load_last_state(stateFile),
                    !.snapshot = k,
                    !.alerts = check_thresholds(Samples[k], cfg.thresholds)])
          /\ UNCHANGED stateFile
       \/ /\ Raise(p, "CollectionError")
          /\ stateFile' = File(TRUE, <<>>)
    /\ UNCHANGED <<logFile, cfg, logReadable, scanCount, seen, tailVars, fnVars>>

\* run_once, lines 134-138: load the state, take the metrics snapshot,
\* evaluate the thresholds.  psutil may raise.
StartCycle(p) ==
    /\ pc[p] = "idle"
    /\ \/ \E k \in 1 .. Len(Samples) :
             Goto(p, "tail", [loc[p] EXCEPT
                 !.last_state = load_last_state(stateFile),
                 !.snapshot = k,
                 !.alerts = check_thresholds(Samples[k], cfg.thresholds)])
       \/ Raise(p, "CollectionError")
    /\ UNCHANGED <<logFile, stateFile, cfg, logReadable, scanCount, seen, tailVars, fnVars>>

\* main, lines 184-189: the scheduler calls run_once.
CycleBegin(p) == StartCycle(p) /\ UNCHANGED runs

\* The bytes of the log file a read from `from` to `upto` passes on.
Scanned(from, upto) ==
    [i \in 1 .. MaxLogLen |->
        IF from < i /\ i <= upto THEN Min(2, scanCount[i] + 1) ELSE scanCount[i]]

\* run_once, lines 141-148: last_state.get raises when the loaded value is
\* no dict, open (tail_log, line 75) when the file exists and may not be
\* read, f.seek when the offset is no position; then the new lines are
\* scanned and a message about the hits joins the alerts.
TailLog(p) ==
    /\ pc[p] = "tail"
    /\ IF loc[p].last_state.kind # "object"
       THEN Raise(p, "AttributeError") /\ UNCHANGED scanCount
       ELSE IF logFile.exists /\ ~logReadable
       THEN Raise(p, "PermissionError") /\ UNCHANGED scanCount
       ELSE LET last_pos == get_log_pos(loc[p].last_state)
                r == tail_log(logFile, last_pos, MaxBytes)
                hits == scan_for_patterns(r.lines, cfg.log_patterns)
            IN IF r.raised
               THEN Raise(p, "SeekError") /\ UNCHANGED scanCount
               ELSE /\ Goto(p, "alert", [loc[p] EXCEPT
                           !.last_pos = last_pos,
                           !.present = logFile.exists,
                           !.hits = hits,
                           !.new_pos = r.new_pos,
                           !.tailed = TRUE,
                           !.alerts = IF hits # <<>>
                                      THEN Append(@, Breach("log", Len(hits)))
                                      ELSE @])
                    /\ scanCount' = Scanned(last_pos.n, r.new_pos)
    /\ UNCHANGED <<logFile, stateFile, cfg, logReadable, seen, runs, tailVars, fnVars>>

\* send_email(smtp_cfg, subject, body): smtp_cfg["from"] is read before the
\* try block; every failure of the transport is caught and logged.
send_email(p, smtp) ==
    IF smtp = "nofrom"
    THEN Goto(p, "raised", [loc[p] EXCEPT !.sent = @ + 1, !.err = "KeyError"])
    ELSE \E ok \in BOOLEAN :
            Goto(p, "save", [loc[p] EXCEPT
                !.sent = @ + 1,
                !.dispatch = IF ok THEN "delivered" ELSE "failed"])

\* run_once, lines 151-164: with alerts, cfg["smtp"] is looked up and
\* send_email called.
Dispatch(p) ==
    /\ pc[p] = "alert"
    /\ loc[p].alerts # <<>>
    /\ IF cfg.smtp = "missing"
       THEN Raise(p, "KeyError")
       ELSE send_email(p, cfg.smtp)
    /\ UNCHANGED <<logFile, stateFile, cfg, logReadable, scanCount, seen, runs, tailVars, fnVars>>

\* run_once, lines 165-166: no alerts, nothing is sent.
NoDispatch(p) ==
    /\ pc[p] = "alert"
    /\ loc[p].alerts = <<>>
    /\ Goto(p, "save", [loc[p] EXCEPT !.dispatch = "skipped"])
    /\ UNCHANGED <<logFile, stateFile, cfg, logReadable, scanCount, seen, runs, tailVars, fnVars>>

\* run_once, lines 169-171 and save_last_state, line 130: the new offset
\* and snapshot are put in last_state, and open(state_file, "w") empties
\* the file.
SaveOpen(p) ==
    /\ pc[p] = "save"
    /\ stateFile' = File(TRUE, <<>>)
    /\ Goto(p, "write", [loc[p] EXCEPT
           !.last_state = [@ EXCEPT !.log_pos = IntVal(loc[p].new_pos),
                                    !.last_snapshot = SnapVal(loc[p].snapshot)],
           !.wr = 0])
    /\ UNCHANGED <<logFile, cfg, logReadable, scanCount, seen, runs, tailVars, fnVars>>

\* A write of one piece at position `at` (counted from 0) of the file: it
\* replaces what is there, or extends the file, filling a hole before it.
WriteAt(data, at, tok) ==
    IF at < Len(data) THEN [data EXCEPT ![at + 1] = tok]
    ELSE data \o [i \in 1 .. at - Len(data) |-> NUL] \o <<tok>>

\* save_last_state, line 131: json.dump writes the next piece of the text
\* at this process's position in the file.
SaveWrite(p) ==
    /\ pc[p] = "write"
    /\ loc[p].wr < Len(JsonDump(loc[p].last_state))
    /\ stateFile' = File(TRUE,
           WriteAt(stateFile.data, loc[p].wr, JsonDump(loc[p].last_state)[loc[p].wr + 1]))
    /\ Goto(p, "write", [loc[p] EXCEPT !.wr = @ + 1])
    /\ UNCHANGED <<logFile, cfg, logReadable, scanCount, seen, runs, tailVars, fnVars>>

\* The with block of save_last_state ends, run_once returns.
SaveClose(p) ==
    /\ pc[p] = "write"
    /\ loc[p].wr = Len(JsonDump(loc[p].last_state))
    /\ Goto(p, "returned", [loc[p] EXCEPT !.saved = TRUE])
    /\ UNCHANGED <<logFile, stateFile, cfg, logReadable, scanCount, seen, runs, tailVars, fnVars>>

\* main, lines 188-190: run_once returned; after the sleep the loop calls
\* it again.  For the dashboard: the subprocess has exited, run_check
\* returns and can be posted to again.
NextCycle(p) ==
    /\ pc[p] = "returned"
    /\ Goto(p, "idle", InitLoc)
    /\ UNCHANGED <<logFile, stateFile, cfg, logReadable, scanCount, seen, runs, tailVars, fnVars>>

\* main, lines 184-192: an exception that left run_once is caught nowhere
\* (the try around the loop handles KeyboardInterrupt only); it leaves the
\* loop and main, and the process ends.
Propagate(p) ==
    /\ pc[p] = "raised"
    /\ Goto(p, "exited", loc[p])
    /\ UNCHANGED <<logFile, stateFile, cfg, logReadable, scanCount, seen, runs, tailVars, fnVars>>

\* The process has ended (by an exception, a kill or an interrupt); it is
\* started again.
Restart(p) ==
    /\ pc[p] \in {"exited", "killed", "interrupted"}
    /\ Goto(p, "idle", InitLoc)
    /\ UNCHANGED <<logFile, stateFile, cfg, logReadable, scanCount, seen, runs, tailVars, fnVars>>

\* ----------------------------------------------------------- environment
\* A writer appends one byte to the log file.
LogAppend ==
    /\ logFile.exists
    /\ Len(logFile.data) < MaxLogLen
    /\ \E c \in SysBytes : logFile' = File(TRUE, Append(logFile.data, c))
    /\ UNCHANGED <<stateFile, cfg, logReadable, pc, loc, scanCount, seen, runs, tailVars, fnVars>>

NothingScanned == [i \in 1 .. MaxLogLen |-> 0]

\* The log file is truncated in place: its bytes are gone.
LogTruncate ==
    /\ logFile.exists
    /\ logFile.data # <<>>
    /\ logFile' = File(TRUE, <<>>)
    /\ scanCount' = NothingScanned
    /\ UNCHANGED <<stateFile, cfg, logReadable, pc, loc, seen, runs, tailVars, fnVars>>

\* The log file is removed, for instance rotated away.
LogRemove ==
    /\ logFile.exists
    /\ logFile' = AbsentFile
    /\ scanCount' = NothingScanned
    /\ UNCHANGED <<stateFile, cfg, logReadable, pc, loc, seen, runs, tailVars, fnVars>>

\* A new, empty log file is created.
LogCreate ==
    /\ ~logFile.exists
    /\ logFile' = File(TRUE, <<>>)
    /\ UNCHANGED <<stateFile, cfg, logReadable, pc, loc, scanCount, seen, runs, tailVars, fnVars>>

\* ------------------------------------------------- the scheduler alone
Init ==
    /\ logFile \in {AbsentFile, File(TRUE, <<>>)}
    /\ stateFile \in StateFileShapes
    /\ cfg \in {Config(s) : s \in {"ok", "nofrom", "missing"}}
    /\ logReadable = TRUE
    /\ pc = [p \in Procs |-> IF p = "sched" THEN "idle" ELSE "off"]
    /\ loc = [p \in Procs |-> InitLoc]
    /\ scanCount = NothingScanned
    /\ seen = EmptyDict
    /\ runs = 0
    /\ TailIdle
    /\ FnIdle

Steps(p) ==
    \/ TailLog(p)
    \/ Dispatch(p)
    \/ NoDispatch(p)
    \/ SaveOpen(p)
    \/ SaveWrite(p)
    \/ SaveClose(p)
    \/ NextCycle(p)
    \/ Propagate(p)
    \/ Restart(p)

Next ==
    \/ CycleBegin("sched")
    \/ Steps("sched")
    \/ LogAppend
    \/ LogTruncate
    \/ LogRemove
    \/ LogCreate

Spec == Init /\ [][Next]_vars

\* ------------------------------------------ the scheduler in loop mode
\* main, lines 186-192: a KeyboardInterrupt (Ctrl-C, SIGINT) is raised in
\* the main thread wherever it is, in time.sleep or inside run_once; the
\* except clause around the loop logs it and main returns.  What run_once
\* has done up to there stays done.
Interrupt(p) ==
    /\ pc[p] \in {"idle", "tail", "alert", "save", "write", "returned"}
    /\ Goto(p, "interrupted", loc[p])
    /\ UNCHANGED <<logFile, stateFile, cfg, logReadable, scanCount, seen, runs, tailVars, fnVars>>

\* The permissions of the log file are changed: the monitor's user loses
\* or regains the right to read it.
LogChmod ==
    /\ logFile.exists
    /\ logReadable' = ~logReadable
    /\ UNCHANGED <<logFile, stateFile, cfg, pc, loc, scanCount, seen, runs, tailVars, fnVars>>

NextLoop ==
    \/ CycleBegin("sched")
    \/ Steps("sched")
    \/ Interrupt("sched")
    \/ LogAppend
    \/ LogTruncate
    \/ LogRemove
    \/ LogCreate
    \/ LogChmod

SpecLoop == Init /\ [][NextLoop]_vars

\* ------------------------------- repeated cycles on a log that is at rest
\* The log file has stopped growing and is not rotated: nothing but the
\* monitor acts.  The state file is absent or holds offset 0.
InitLive ==
    /\ logFile \in {File(TRUE, d) : d \in SeqsUpTo(SysBytes, MaxLogLen)}
    /\ stateFile \in {AbsentFile, File(TRUE, SavedState(0, 1))}
    /\ cfg \in {Config(s) : s \in {"ok", "nofrom", "missing"}}
    /\ logReadable = TRUE
    /\ pc = [p \in Procs |-> IF p = "sched" THEN "idle" ELSE "off"]
    /\ loc = [p \in Procs |-> InitLoc]
    /\ scanCount = NothingScanned
    /\ seen = EmptyDict
    /\ runs = 0
    /\ TailIdle
    /\ FnIdle

\* metrics_snapshot returned: the cycle goes on to the log.
Collected(p) == CycleBegin(p) /\ pc'[p] = "tail"

NextLive == CycleBegin("sched") \/ Steps("sched")

\* Cycles are repeated: the loop of main (or whatever starts the process
\* again) keeps calling run_once, every step of a cycle that can be taken
\* is taken, and metrics collection succeeds again and again.
SpecLive ==
    /\ InitLive
    /\ [][NextLive]_vars
    /\ WF_vars(CycleBegin("sched"))
    /\ WF_vars(Steps("sched"))
    /\ SF_vars(Collected("sched"))

\* ------------------------------------- the scheduler and the dashboard
\* run_check, lines 72-82: the subprocess that runs the cycle is killed
\* when it has not ended after the timeout; the scheduler process can be
\* killed by a signal.  What the process has written to the state file
\* stays as it is.
Kill(p) ==
    /\ pc[p] \in {"tail", "alert", "save", "write"}
    /\ Goto(p, "killed", InitLoc)
    /\ UNCHANGED <<logFile, stateFile, cfg, logReadable, scanCount, seen, runs, tailVars, fnVars>>

\* api_state / index of the dashboard: read_state() reads the state file.
DashRead ==
    /\ seen' = read_state(stateFile)
    /\ UNCHANGED <<logFile, stateFile, cfg, logReadable, pc, loc, scanCount, runs, tailVars, fnVars>>

\* main called by the scheduler's interval or by run_check's subprocess
\* (python monitor.py --once): one more cycle starts.
RunBegin(p) ==
    /\ runs < MaxRuns
    /\ runs' = runs + 1
    /\ StartCycle(p)

\* Both processes at rest on a state file that a completed cycle left.
InitConc ==
    /\ logFile = File(TRUE, <<"E", LF, "E">>)
    /\ stateFile = File(TRUE, SavedState(0, 1))
    /\ cfg = Config("ok")
    /\ logReadable = TRUE
    /\ pc = [p \in Procs |-> "idle"]
    /\ loc = [p \in Procs |-> InitLoc]
    /\ scanCount = NothingScanned
    /\ seen = read_state(stateFile)
    /\ runs = 0
    /\ TailIdle
    /\ FnIdle

NextConc ==
    \/ RunBegin("sched")
    \/ RunBegin("dash")
    \/ Steps("sched")
    \/ Steps("dash")
    \/ Kill("sched")
    \/ Kill("dash")
    \/ DashRead

SpecConc == InitConc /\ [][NextConc]_vars

\* ------------------------------------------------- claims on tail_log
FreshRead(file, cap) == SubSeq(file.data, 1, Min(Len(file.data), cap))

\* C3 (as claimed): called with last_pos greater than the size of the file,
\* tail_log does not raise, returns the lines of the file read from byte 0
\* and the offset of that fresh read.
C3_StaleOffsetRestartsAtZero ==
    (tStep = "first" /\ tGrown = 0 /\ tFile.exists /\ tPos > Len(tFile.data))
        => /\ ~r1.raised
           /\ r1.lines = splitlines(Decode(FreshRead(tFile, tCap)))
           /\ r1.new_pos = Len(FreshRead(tFile, tCap))

\* The content from the first starting offset to the second returned offset.
Whole == SubSeq(tFile.data, tPos + 1, r2.new_pos)

BytesContiguous ==
    /\ ~r1.raised /\ ~r2.raised
    /\ r1.new_pos = tPos + Len(r1.data)
    /\ r2.new_pos = r1.new_pos + Len(r2.data)
    /\ r1.data \o r2.data = Whole

NoWritesBetween == tStep = "second" /\ tGrown = 0 /\ tPos = 0

\* C6 (as claimed): with no writes between the calls, the call from the
\* offset returned by a call from 0 returns no lines and the same offset,
\* for every content and every cap.
C6_SecondCallEmpty ==
    NoWritesBetween => (r2.lines = <<>> /\ r2.new_pos = r1.new_pos)

\* C6 (amended): the same, for every content and every cap that is at least
\* the size of the file; with a smaller positive cap the second call
\* returns the bytes that follow.
C6_SecondCallEmptyAtEof ==
    NoWritesBetween =>
        IF ~tFile.exists \/ Len(tFile.data) <= tCap
        THEN r2.lines = <<>> /\ r2.new_pos = r1.new_pos /\ ~r2.raised
        ELSE tCap > 0 => (r2.data # <<>> /\ r2.new_pos = Min(Len(tFile.data), 2 * tCap))

\* C6 witness: the first call read a whole non-empty file.
C6_Witness ==
    /\ NoWritesBetween /\ tFile.exists
    /\ Len(tFile.data) = tCap /\ r1.lines # <<>>

\* ------------------------------------------------- claims on run_once
CycleOver(p) == pc[p] \in {"returned", "raised"}

\* C1 (as claimed): a cycle that got past metrics collection and log
\* tailing ends with save_last_state executed, the state file holding the
\* new offset and the new sample, whether the dispatch succeeded, failed or
\* was skipped.
C1_SaveAfterEveryOutcome ==
    \A p \in Procs :
        (CycleOver(p) /\ loc[p].tailed)
            => /\ pc[p] = "returned"
               /\ loc[p].saved
               /\ load_last_state(stateFile)
                    = Dict(IntVal(loc[p].new_pos), SnapVal(loc[p].snapshot))

C4_NoByteScannedTwice ==
    /\ \A i \in 1 .. MaxLogLen : scanCount[i] <= 1
    /\ \A p \in Procs :
          (pc[p] = "alert" /\ stateFile.exists /\ JsonLoad(stateFile.data).ok)
              => loc[p].last_pos = get_log_pos(JsonLoad(stateFile.data).val)

\* C7 (as claimed): in a cycle that reached the decision, send_email is
\* called once when there are breaches or hits, and not at all when there
\* are none.
C7_DispatchIffAlerts ==
    \A p \in Procs :
        (loc[p].tailed /\ pc[p] \in {"save", "write", "returned", "raised"})
            => loc[p].sent = (IF loc[p].alerts # <<>> THEN 1 ELSE 0)

\* The state file holds a state a cycle can start from: a JSON object whose
\* log_pos is a non-negative integer.
ValidStateFile ==
    /\ stateFile.exists
    /\ JsonLoad(stateFile.data).ok
    /\ JsonLoad(stateFile.data).val.kind = "object"
    /\ JsonLoad(stateFile.data).val.log_pos.t = "int"
    /\ JsonLoad(stateFile.data).val.log_pos.n >= 0

\* C10 (as claimed): whatever the state file holds, a state file that is
\* no valid state loads as the default state, offset 0, and no cycle fails
\* because of what the state file held.
C10_CorruptStateIsDefault ==
    \A p \in Procs :
        /\ (pc[p] = "tail" /\ ~ValidStateFile)
              => /\ loc[p].last_state.kind = "object"
                 /\ get_log_pos(loc[p].last_state) = Pos(0)
        /\ loc[p].err \notin {"AttributeError", "SeekError"}

\* ---------------------------------------------- claims on concurrency
CompleteState(d) ==
    d.kind = "object" /\ d.log_pos.t = "int" /\ d.last_snapshot.t = "snap"

\* C8 (as claimed): every reader of the state file, the dashboard's
\* read_state and the load_last_state of a cycle, gets a complete state,
\* never the content of an empty or half-written file.
C8_ReadersSeeCompleteState ==
    /\ CompleteState(seen)
    /\ \A p \in Procs :
          pc[p] \in {"tail", "alert", "save"} => CompleteState(loc[p].last_state)

InCycle(p) == pc[p] \in {"tail", "alert", "save", "write"}

\* C9 (as claimed): at no time are two cycles between load_last_state and
\* the end of save_last_state on the same state file.
C9_NoOverlappingCycles == ~(InCycle("sched") /\ InCycle("dash"))

\* ------------------------------------------- claims on the pure functions
Done(fn) == fnStep = "done" /\ fnCall.fn = fn

Rank(metric) == CHOOSE i \in 1 .. Len(Metrics) : Metrics[i] = metric

\* C12: check_thresholds returns a breach for a metric exactly when its
\* value is at or above its limit (the default limit when none is
\* configured), with the value in the message, in the order cpu, mem, disk.
C12_BreachIffAtOrAboveLimit ==
    Done("check_thresholds") =>
        LET a == fnOut.alerts
            s == fnCall.snapshot
            t == fnCall.thresholds
            lim(m) == IF m \in DOMAIN t THEN t[m] ELSE DefaultLimit
        IN /\ \A m \in MetricNames :
                 (\E i \in 1 .. Len(a) : a[i].metric = m) <=> s[m] >= lim(m)
           /\ \A i \in 1 .. Len(a) : a[i].value = s[a[i].metric]
           /\ \A i, j \in 1 .. Len(a) :
                 i < j => Rank(a[i].metric) < Rank(a[j].metric)

\* A value equal to the default limit of a metric with no configured limit.
C12_Witness ==
    /\ Done("check_thresholds")
    /\ "cpu_percent" \notin DOMAIN fnCall.thresholds
    /\ fnCall.snapshot.cpu_percent = DefaultLimit
    /\ fnCall.snapshot.disk_percent < Limit(fnCall.thresholds, "disk_percent")
    /\ Len(fnOut.alerts) >= 1

SameLetter(a, b) == a = b \/ {a, b} = {"e", "E"}

\* The line has the pattern as a substring, letters compared without case.
HasPattern(ln, pat) ==
    \E o \in 0 .. Len(ln) - Len(pat) :
        \A j \in 1 .. Len(pat) : SameLetter(ln[o + j], pat[j])

\* C13: scan_for_patterns returns exactly the lines that contain at least
\* one pattern as a case-insensitive substring, each once, in their order.
C13_HitsAreMatchingLinesInOrder ==
    Done("scan_for_patterns") =>
        LET h == fnOut.hits
            L == fnCall.lines
            P == fnCall.patterns
            Idx == {i \in 1 .. Len(L) : \E k \in 1 .. Len(P) : HasPattern(L[i], P[k])}
        IN /\ Len(h) = Cardinality(Idx)
           /\ \A n \in 1 .. Len(h) :
                 \E i \in Idx : /\ Cardinality({j \in Idx : j <= i}) = n
                                /\ h[n] = L[i]

\* A line that two patterns match by folding case, and a line none matches.
C13_Witness ==
    /\ Done("scan_for_patterns")
    /\ fnCall.patterns = << <<"x">>, <<"e">> >>
    /\ fnCall.lines = << <<"x">>, <<"E", "x">> >>
    /\ fnOut.hits = fnCall.lines

C11_CycleErrorKeepsLoopAlive == pc["sched"] # "exited"

\* Between cycles: run_once has not been entered, or it has returned.
BetweenCycles(p) == loc[p] = InitLoc \/ loc[p].saved

\* C15: in loop mode an interrupt takes effect only between cycles: when
\* the scheduler has ended by an interrupt, no cycle is left unfinished.
C15_InterruptOnlyBetweenCycles ==
    pc["sched"] = "interrupted" => BetweenCycles("sched")

\* C18: a log file that exists and cannot be read does not abort the
\* cycle: no cycle ends by the exception that open raised.
C18_UnreadableLogDegrades ==
    \A p \in Procs :
        pc[p] \in {"raised", "exited"} => loc[p].err # "PermissionError"

\* ------------------------------------------------ claims on failed reads
\* C17: when metrics collection fails the cycle aborts with nothing
\* changed: no alert is sent, the log is not read, and the state file and
\* the log file are as they were before the cycle.
C17_CollectionFailureChangesNothing ==
    [][\A p \in Procs :
          (pc[p] = "idle" /\ pc'[p] = "raised") =>
              /\ loc'[p].err = "CollectionError"
              /\ loc'[p].sent = 0
              /\ ~loc'[p].tailed
              /\ scanCount' = scanCount
              /\ stateFile' = stateFile
              /\ logFile' = logFile]_vars

\* Metrics collection failed in a cycle that found a saved offset and a
\* log file with unread content.
C17_Witness ==
    /\ pc["sched"] = "raised"
    /\ loc["sched"].err = "CollectionError"
    /\ stateFile = File(TRUE, SavedState(0, 1))
    /\ logFile.exists
    /\ logFile.data # <<>>

\* The cycle of p has called tail_log and found no log file.
TailedAbsent(p) == loc[p].tailed /\ ~loc[p].present

\* C19: with no log file tail_log returns no lines and offset 0 without
\* raising, whatever last_pos is; the cycle then has no log findings and
\* ends having saved offset 0.
C19_AbsentLogSavesZero ==
    \A p \in Procs :
        /\ (pc[p] = "tail" /\ loc[p].last_state.kind = "object" /\ ~logFile.exists) =>
               tail_log(logFile, get_log_pos(loc[p].last_state), MaxBytes)
                   = TailResult(FALSE, <<>>, <<>>, 0)
        /\ TailedAbsent(p) =>
               /\ loc[p].hits = <<>>
               /\ loc[p].new_pos = 0
               /\ \A i \in 1 .. Len(loc[p].alerts) : loc[p].alerts[i].metric # "log"
               /\ pc[p] \in {"returned", "raised", "exited"} =>
                      /\ loc[p].saved
                      /\ load_last_state(stateFile).log_pos = IntVal(0)

\* ------------------------------------------------- claims on the backlog
\* A cycle has returned with the persisted offset at the end of the log
\* file and every byte of the file passed to the scanner exactly once.
Drained ==
    /\ pc["sched"] = "returned"
    /\ load_last_state(stateFile).log_pos = IntVal(Len(logFile.data))
    /\ \A i \in 1 .. Len(logFile.data) : scanCount[i] = 1

\* C16: a call of tail_log reads at most max_bytes bytes from last_pos,
\* and on a log that has stopped growing and is not rotated repeated
\* cycles eventually leave the persisted offset at the file size with
\* every byte scanned in exactly one cycle.
C16_BacklogDrainsOnce ==
    /\ [](\A p \in Procs :
            loc[p].tailed => loc[p].new_pos - loc[p].last_pos.n <= MaxBytes)
    /\ <>Drained

\* ------------------------------------------- claims on lines cut by reads
\* A configured pattern of more than one character.
TailPatterns == << <<"e", "e">> >>

\* Two calls have read a file that only grew, from its start to its end,
\* and every line of the file is complete.
ReadWholeLines ==
    /\ tStep = "second"
    /\ tFile.exists
    /\ tPos = 0
    /\ r2.new_pos = Len(tFile.data)
    /\ tFile.data # <<>>
    /\ tFile.data[Len(tFile.data)] = LF

\* C20: for a log file that only grows, the hits of the cycles together
\* are the complete lines of the file that contain a pattern, each once,
\* also when a read stops inside a line.
C20_CompleteLinesHitOnce ==
    ReadWholeLines =>
        scan_for_patterns(r1.lines, TailPatterns)
            \o scan_for_patterns(r2.lines, TailPatterns)
        = scan_for_patterns(splitlines(Decode(tFile.data)), TailPatterns)

=============================================================================
